---- MODULE Spec2Model ----
(***************************************************************************)
(* Model of the sitemap crawler (parser.rs, robots.rs, sitemap.rs,         *)
(* lib.rs): parse_multiple_sites runs one parse_site per input URL under   *)
(* a semaphore; parse_site fetches robots.txt and then traverses the       *)
(* sitemap graph with fetch_and_process_single_sitemap.                    *)
(*                                                                         *)
(* A URL string is a sequence of tokens (scheme, host, port, path, query,  *)
(* fragment).  A traversal is a tree of calls; a call is named by its path *)
(* of child indexes from the top-level list.                               *)
(***************************************************************************)
EXTENDS Bags, FiniteSets, Integers, Sequences, TLC

(* ---------------------------------------------------------------------- *)
(* Bounds                                                                  *)
(* ---------------------------------------------------------------------- *)
\* single-site specification (SiteSpec)
MaxSitemaps == 3
MaxDepth == 2
MaxNested == 2
\* parse_specific_sitemaps (BypassSpec)
MaxUrls == 3
\* tokens of an input of normalize_url (NormalizeSpec)
MaxTokens == 4
\* lines of a robots text (RobotsSpec)
MaxLines == 2
\* entries of a sitemap document (DecodeSpec)
MaxEntries == 2
\* batch specification (Spec)
MaxSites == 3
MaxConcurrent == 2

\* lib.rs default of max_nested_per_level
DefaultMaxNested == 5

Min(a, b) == IF a < b THEN a ELSE b

(* ---------------------------------------------------------------------- *)
(* URL strings                                                             *)
(* ---------------------------------------------------------------------- *)
Schemes == {"http://", "https://"}
Hosts == {"a.example"}
Ports == {":8080", ":443"}
Paths == {"/", "/robots.txt", "/sitemap.xml", "/sitemap_index.xml",
          "/sitemaps.xml", "/bad.xml", "/p1", "/p2", "/p3", "/news.xml"}
Queries == {"?q=1"}
Fragments == {"#top"}
RelPaths == {"news.xml"}
\* a reference the url crate cannot join against any base
BadRefs == {"//["}

\* the token of a scheme without its "://", as Url::scheme() returns it and
\* format!("{}://{}", ..) puts it back
scheme_name(s) == IF s = "http://" THEN "http" ELSE "https"
with_separator(n) == IF n = "http" THEN "http://" ELSE "https://"

\* relative path resolved against a base whose path has one segment
rooted(r) == IF r \in RelPaths THEN "/news.xml" ELSE r

\* str::starts_with("http://") || str::starts_with("https://")
starts_with_scheme(u) == Len(u) > 0 /\ u[1] \in Schemes

\* str::starts_with('/')
starts_with_slash(u) == Len(u) > 0 /\ u[1] \in Paths \cup BadRefs

\* the port Url::port() leaves out for a scheme
default_port(s) == IF s = "http://" THEN ":80" ELSE ":443"

opt(u, i, class) == IF i <= Len(u) /\ u[i] \in class THEN <<u[i]>> ELSE <<>>

\* url::Url::parse on a token sequence: scheme host [port] [path] [query] [fragment]
url_parse(u) ==
    IF Len(u) >= 2 /\ u[1] \in Schemes /\ u[2] \in Hosts
    THEN LET port == opt(u, 3, Ports)
             path == opt(u, 3 + Len(port), Paths)
             query == opt(u, 3 + Len(port) + Len(path), Queries)
             frag == opt(u, 3 + Len(port) + Len(path) + Len(query), Fragments)
         IN  IF 2 + Len(port) + Len(path) + Len(query) + Len(frag) = Len(u)
             THEN [ok |-> TRUE, scheme |-> scheme_name(u[1]), host |-> u[2],
                   port |-> IF port = <<default_port(u[1])>> THEN <<>> ELSE port,
                   path |-> IF path = <<>> THEN "/" ELSE path[1],
                   query |-> query, fragment |-> frag]
             ELSE [ok |-> FALSE]
    ELSE [ok |-> FALSE]

normalize_url_always_prefixed(url) ==
    LET parsed == url_parse(<<"https://">> \o url)
    IN  IF ~parsed.ok THEN [ok |-> FALSE, err |-> "InvalidURL"]
        ELSE [ok |-> TRUE,
              value |-> <<with_separator(parsed.scheme), parsed.host>>
                        \o parsed.port \o <<parsed.path>> \o parsed.query]

\* parser.rs normalize_url
normalize_url(url) ==
    LET normalized == IF ~starts_with_scheme(url) THEN <<"https://">> \o url ELSE url
        parsed == url_parse(normalized)
    IN  IF ~parsed.ok THEN [ok |-> FALSE, err |-> "InvalidURL"]
        ELSE [ok |-> TRUE,
              value |-> <<with_separator(parsed.scheme), parsed.host>>
                        \o parsed.port \o <<parsed.path>> \o parsed.query]

\* str::trim_end_matches('/')
RECURSIVE trim_end_matches_slash(_)
trim_end_matches_slash(u) ==
    IF Len(u) > 0 /\ u[Len(u)] = "/"
    THEN trim_end_matches_slash(SubSeq(u, 1, Len(u) - 1))
    ELSE u

\* Url::join of a reference against a parsed base
url_join(base, ref) ==
    IF ref[1] \in BadRefs THEN [ok |-> FALSE, err |-> "InvalidURL"]
    ELSE IF starts_with_scheme(ref) THEN [ok |-> TRUE, value |-> ref]
    ELSE LET origin == <<with_separator(base.scheme), base.host>> \o base.port
         IN  IF ref[1] \in Paths
             THEN [ok |-> TRUE, value |-> origin \o ref]
             ELSE [ok |-> TRUE, value |-> origin \o <<rooted(ref[1])>> \o Tail(ref)]

(* ---------------------------------------------------------------------- *)
(* robots.rs                                                               *)
(* ---------------------------------------------------------------------- *)
\* str::to_lowercase on the key of a robots line, colon included
to_lowercase(k) ==
    IF k \in {"Sitemap:", "SITEMAP:", "sitemap:"} THEN "sitemap:" ELSE k

\* str::trim on a value whose blanks are " " tokens
RECURSIVE trim(_)
trim(v) ==
    IF Len(v) > 0 /\ v[1] = " " THEN trim(Tail(v))
    ELSE IF Len(v) > 0 /\ v[Len(v)] = " " THEN trim(SubSeq(v, 1, Len(v) - 1))
    ELSE v

\* robots.rs lines 13-36: the value of one Sitemap directive made absolute
robots_absolute_url(sitemap_url, base_url) ==
    LET base == url_parse(base_url)
        joined == url_join(base, sitemap_url)
    IN  IF starts_with_slash(sitemap_url)
        THEN IF base.ok /\ joined.ok THEN joined.value ELSE sitemap_url
        ELSE IF starts_with_scheme(sitemap_url) THEN sitemap_url
        ELSE IF base.ok /\ joined.ok THEN joined.value
        ELSE trim_end_matches_slash(base_url) \o <<"/">> \o sitemap_url

\* robots.rs parse_robots_txt: a robots text is a sequence of lines
\* [key, value], the key being the first 8 characters of the trimmed line
RECURSIVE parse_robots_txt(_, _)
parse_robots_txt(content, base_url) ==
    IF content = <<>> THEN <<>>
    ELSE LET line == Head(content)
             rest == parse_robots_txt(Tail(content), base_url)
         IN  IF to_lowercase(line.key) = "sitemap:" /\ trim(line.value) # <<>>
             THEN <<robots_absolute_url(trim(line.value), base_url)>> \o rest
             ELSE rest

(* ---------------------------------------------------------------------- *)
(* sitemap.rs                                                              *)
(* ---------------------------------------------------------------------- *)
make_absolute_url_unresolved(url, base_url) == [ok |-> TRUE, value |-> url]

\* sitemap.rs make_absolute_url
make_absolute_url(url, base_url) ==
    LET base == url_parse(base_url)
    IN  IF starts_with_scheme(url) THEN [ok |-> TRUE, value |-> url]
        ELSE IF starts_with_slash(url)
        THEN IF base.ok THEN url_join(base, url)
             ELSE [ok |-> TRUE, value |-> trim_end_matches_slash(base_url) \o url]
        ELSE IF base.ok THEN url_join(base, url)
        ELSE [ok |-> TRUE,
              value |-> trim_end_matches_slash(base_url) \o <<"/">> \o url]

\* A document is a sequence of tokens: markup (a start tag, an end tag, a
\* comment) and the pieces of the text between it.
Elements == {"urlset", "sitemapindex", "url", "sitemap", "loc", "lastmod",
             "image", "image:image", "image:loc"}
open_tag(q) == "<" \o q \o ">"
close_tag(q) == "</" \o q \o ">"
StartTags == {open_tag(q) : q \in Elements}
EndTags == {close_tag(q) : q \in Elements}
Comment == "<!-- generated by a sitemap plugin; this file lists the pages and the sitemaps of the whole site -->"

\* the qualified name of a tag
name(t) == CHOOSE q \in Elements : t \in {open_tag(q), close_tag(q)}

\* quick_xml local_name: the qualified name without its prefix
local_name(q) ==
    IF q = "image:image" THEN "image" ELSE IF q = "image:loc" THEN "loc" ELSE q

\* sitemap.rs 14-23: the result and the flags before the first event
reader_start ==
    [in_url |-> FALSE, in_sitemap |-> FALSE, in_image |-> FALSE, in_loc |-> FALSE,
     current_text |-> <<>>, open |-> <<>>,
     result |-> [ok |-> TRUE, urls |-> {}, nested_sitemaps |-> <<>>]]

\* sitemap.rs 27-40: Event::Start
on_start(r, q) ==
    LET n == local_name(q)
        pushed == [r EXCEPT !.open = Append(@, q)]
    IN  IF n = "url" THEN [pushed EXCEPT !.in_url = TRUE]
        ELSE IF n = "sitemap" THEN [pushed EXCEPT !.in_sitemap = TRUE]
        ELSE IF n = "image" THEN [pushed EXCEPT !.in_image = TRUE]
        ELSE IF n = "loc" THEN [pushed EXCEPT !.in_loc = TRUE, !.current_text = <<>>]
        ELSE pushed

loc_is_sitemap_or_url(r) == r.in_sitemap \/ r.in_url

\* sitemap.rs 53: the loc is recorded as a nested sitemap
loc_is_sitemap(r) == r.in_sitemap

\* sitemap.rs 57: the loc is recorded as a content URL
loc_is_url(r) == r.in_url /\ ~r.in_image

\* sitemap.rs 49-67: Event::End of a loc
on_end_loc(r, base_url) ==
    LET url == trim(r.current_text)
        absolute_url == make_absolute_url(url, base_url)
        closed == [r EXCEPT !.in_loc = FALSE, !.current_text = <<>>]
    IN  IF ~r.in_loc THEN r
        ELSE IF url = <<>> THEN closed
        ELSE IF loc_is_sitemap(r)
        THEN IF ~absolute_url.ok
             THEN [closed EXCEPT !.result = [ok |-> FALSE, err |-> absolute_url.err]]
             ELSE [closed EXCEPT !.result.nested_sitemaps = Append(@, absolute_url.value)]
        ELSE IF loc_is_url(r)
        THEN [closed EXCEPT !.result.urls = @ \cup {url}]
        ELSE closed

\* sitemap.rs 42-71: Event::End
on_end(r, q, base_url) ==
    LET n == local_name(q)
        popped == [r EXCEPT !.open = SubSeq(@, 1, Len(@) - 1)]
    IN  IF n = "url" THEN [popped EXCEPT !.in_url = FALSE]
        ELSE IF n = "sitemap" THEN [popped EXCEPT !.in_sitemap = FALSE]
        ELSE IF n = "image" THEN [popped EXCEPT !.in_image = FALSE]
        ELSE IF n = "loc" THEN on_end_loc(popped, base_url)
        ELSE popped

\* sitemap.rs 26-89: the flags and the result after the event of token t
on_event(r, t, base_url) ==
    IF t \in StartTags THEN on_start(r, name(t))
    ELSE IF t \in EndTags THEN on_end(r, name(t), base_url)
    ELSE IF t = Comment THEN r
    ELSE IF r.in_loc THEN [r EXCEPT !.current_text = Append(@, t)]
    ELSE r

\* quick_xml: an end tag that does not close the innermost open element is
\* the reader's Err event
ill_formed(r, t) ==
    t \in EndTags /\ (r.open = <<>> \/ r.open[Len(r.open)] # name(t))

\* sitemap.rs 25-92: the event loop from token i on; it ends at Eof, at the
\* reader's Err event (84-88) and when make_absolute_url fails (55)
RECURSIVE read_events(_, _, _, _)
read_events(content, i, r, base_url) ==
    IF i > Len(content) \/ ~r.result.ok \/ ill_formed(r, content[i]) THEN r.result
    ELSE CHOOSE result \in {read_events(content, j, next, base_url) :
                               j \in {i + 1},
                               next \in {on_event(r, content[i], base_url)}} : TRUE

\* the smallest index from i on where content holds t, 0 if there is none
RECURSIVE find(_, _, _)
find(content, i, t) ==
    IF i > Len(content) THEN 0
    ELSE IF content[i] = t THEN i
    ELSE find(content, i + 1, t)

\* number of characters of content[i..j]
RECURSIVE chars(_, _, _)
chars(content, i, j) ==
    IF i > j THEN 0 ELSE Len(content[i]) + chars(content, i + 1, j)

\* sitemap.rs 115: the characters looked at before a <loc>
ContextWindow == 100

\* sitemap.rs 115-116: the tokens that lie whole in the window before token i
context(content, i) ==
    LET from == CHOOSE k \in 1..i :
                   /\ chars(content, k, i - 1) <= ContextWindow
                   /\ k > 1 => chars(content, k - 1, i - 1) > ContextWindow
    IN  SubSeq(content, from, i - 1)

\* str::contains on the window
contains_open_sitemap(ctx) ==
    \E k \in 1..Len(ctx) : ctx[k] \in {open_tag("sitemap"), open_tag("sitemapindex")}
contains_close_sitemap(ctx) ==
    \E k \in 1..Len(ctx) : ctx[k] = close_tag("sitemap")

\* sitemap.rs 109-129: the result after the match content[loc_start..loc_end]
on_match(content, base_url, result, loc_start, loc_end) ==
    LET url == trim(SubSeq(content, loc_start + 1, loc_end - 1))
        ctx == context(content, loc_start)
        absolute_url == make_absolute_url(url, base_url)
    IN  IF url = <<>> THEN result
        ELSE IF contains_open_sitemap(ctx) /\ ~contains_close_sitemap(ctx)
        THEN IF ~absolute_url.ok THEN [ok |-> FALSE, err |-> absolute_url.err]
             ELSE [result EXCEPT !.nested_sitemaps = Append(@, absolute_url.value)]
        ELSE [result EXCEPT !.urls = @ \cup {url}]

\* sitemap.rs 103-134 parse_fallback, from token start on
RECURSIVE parse_fallback(_, _, _, _)
parse_fallback(content, base_url, result, start) ==
    IF ~result.ok THEN result
    ELSE CHOOSE out \in
           {IF loc_start = 0 THEN result
            ELSE CHOOSE o \in
                   {IF loc_end = 0 THEN result
                    ELSE CHOOSE done \in
                           {parse_fallback(content, base_url, next, loc_end + 1) :
                              next \in {on_match(content, base_url, result,
                                                 loc_start, loc_end)}} : TRUE :
                      loc_end \in {find(content, loc_start + 1, close_tag("loc"))}} : TRUE :
              loc_start \in {find(content, start, open_tag("loc"))}} : TRUE

needs_fallback_urls_only(result) == result.urls = {}

\* sitemap.rs 95: the structured pass found nothing
needs_fallback(result) == result.urls = {} /\ result.nested_sitemaps = <<>>

\* sitemap.rs 13-92: the structured pass alone
structured(content, base_url) ==
    CHOOSE result \in {read_events(c, 1, reader_start, b) :
                          c \in {content}, b \in {base_url}} : TRUE

\* sitemap.rs 13-99: the result, and whether parse_fallback was called
decode(content, base_url) ==
    CHOOSE d \in
      {IF result.ok /\ needs_fallback(result)
       THEN [scanned |-> TRUE, result |-> parse_fallback(content, base_url, result, 1)]
       ELSE [scanned |-> FALSE, result |-> result] :
         result \in {structured(content, base_url)}} : TRUE

\* sitemap.rs parse_sitemap_xml
parse_sitemap_xml(content, base_url) == decode(content, base_url).result

\* documents
Element(q, inner) == <<open_tag(q)>> \o inner \o <<close_tag(q)>>
UrlEntry(loc) == Element("url", Element("loc", loc))
SitemapEntry(loc) == Element("sitemap", Element("loc", loc))

(* ---------------------------------------------------------------------- *)
(* The web: what the HTTP transport can answer                             *)
(* ---------------------------------------------------------------------- *)
Line(key, value) == [key |-> key, value |-> value]
Page(path) == <<"https://", "a.example", path>>

\* robots.txt bodies a site may serve
RobotsNoDirective == <<Line("User-agent:", <<"*">>), Line("Disallow:", <<"/">>)>>
RobotsIndex == <<Line("User-agent:", <<"*">>), Line("Sitemap:", <<"/sitemap_index.xml">>)>>
RobotsRepeated ==
    <<Line("SITEMAP:", Page("/sitemap.xml")), Line("sitemap:", <<"/sitemap.xml">>),
      Line("Sitemap:", <<"/bad.xml">>), Line("Sitemap:", <<"news.xml">>)>>
RobotsTexts == {RobotsNoDirective, RobotsIndex, RobotsRepeated}

\* sitemap documents by path; the index lists itself, a shared leaf and a
\* second leaf
SitemapDoc(path) ==
    CASE path = "/sitemap.xml" ->
           Element("urlset", UrlEntry(Page("/p1")) \o UrlEntry(Page("/p2")))
      [] path = "/sitemap_index.xml" ->
           Element("sitemapindex",
                   SitemapEntry(<<"/sitemap_index.xml">>)
                   \o SitemapEntry(Page("/sitemap.xml"))
                   \o SitemapEntry(<<"/sitemaps.xml">>))
      [] path = "/sitemaps.xml" ->
           Element("urlset", UrlEntry(Page("/p3")) \o UrlEntry(Page("/p1")))
      [] path = "/bad.xml" ->
           Element("urlset", UrlEntry(Page("/p2")) \o SitemapEntry(<<"//[">>))
      [] OTHER -> <<>>

SitemapPaths == {"/sitemap.xml", "/sitemap_index.xml", "/sitemaps.xml", "/bad.xml"}

\* a URL the web serves a sitemap document for
HasDoc(url) ==
    LET p == url_parse(url)
    IN  p.ok /\ p.path \in SitemapPaths /\ p.query = <<>>

Content(url) == SitemapDoc(url_parse(url).path)

\* parser.rs fetch_url: the outcomes one GET of url can have
FetchOutcomes(url) == {"error"} \cup (IF HasDoc(url) THEN {"ok"} ELSE {})

(* ---------------------------------------------------------------------- *)
(* State                                                                   *)
(* ---------------------------------------------------------------------- *)
VARIABLES
    cfg,        \* RustSitemapParser: max_concurrent, max_sitemaps, max_depth, max_nested_per_level
    base_urls,  \* the argument of parse_multiple_sites
    permits,    \* free permits of the semaphore
    phase,      \* per site: "waiting", "robots", "sitemaps", "done"
    robots,     \* per site: the robots.txt GET, "idle", "pending", "ok", "error"
    calls,      \* per site: the calls of fetch_and_process_single_sitemap, by path
    result,     \* per site: the output of the site's future (parse_site's result while it runs)
    requests,   \* per site: bag of the URLs the HTTP client was asked to GET
    batch,      \* the future of parse_multiple_sites
    served,     \* per site: the robots.txt body the site answered with
    bypass,     \* the call of parse_specific_sitemaps
    pure        \* a call of one of the pure functions: its input and output

vars == <<cfg, base_urls, permits, phase, robots, calls, result, requests, batch,
          served, bypass, pure>>

Sites == 1..Len(base_urls)

RECURSIVE SeqToBag(_)
SeqToBag(q) == IF q = <<>> THEN EmptyBag ELSE SetToBag({Head(q)}) (+) SeqToBag(Tail(q))

take_one_more(q, n) == SubSeq(q, 1, Min(Len(q), n + 1))

\* Iterator::take(n)
take(q, n) == SubSeq(q, 1, Min(Len(q), n))

\* parser.rs ParsedSiteResult::new
ParsedSiteResult_new(base_url) ==
    [base_url |-> base_url, urls |-> {}, sitemaps_found |-> <<>>,
     errors |-> <<>>, total_requests |-> 0]

Ok(v) == [ok |-> TRUE, value |-> v]
Err(e) == [ok |-> FALSE, err |-> e]

(* ---------------------------------------------------------------------- *)
(* fetch_and_process_single_sitemap                                        *)
(* ---------------------------------------------------------------------- *)
\* parser.rs 196-201: a call with no depth left returns at once, any other
\* issues its GET
call_state_fetching(max_depth) == "fetching"

call_state(max_depth) == IF max_depth = 0 THEN "skipped" ELSE "fetching"

call_start(sitemap_url, base_url, max_depth) ==
    [url |-> sitemap_url, base |-> base_url, depth |-> max_depth,
     st |-> call_state(max_depth)]

spawn_first_only(p, q, base_url, max_depth) ==
    [c \in {Append(p, i) : i \in 1..Min(1, Len(q))} |->
        call_start(q[c[Len(c)]], base_url, max_depth)]

\* the calls a join_all creates for the list q under the call at path p
spawn(p, q, base_url, max_depth) ==
    [c \in {Append(p, i) : i \in 1..Len(q)} |->
        call_start(q[c[Len(c)]], base_url, max_depth)]

\* the GETs those calls issue
issued(q, max_depth) ==
    IF call_state(max_depth) = "fetching" THEN SeqToBag(q) ELSE EmptyBag

limited_nested_all(nested_sitemaps) == nested_sitemaps

\* parser.rs 212-215
limited_nested(nested_sitemaps) == take(nested_sitemaps, cfg.max_nested_per_level)

nested_to_process_any_depth(decoded, max_depth) ==
    IF decoded.nested_sitemaps # <<>> /\ max_depth > 0
    THEN limited_nested(decoded.nested_sitemaps)
    ELSE <<>>

\* parser.rs 207-222: the children a call starts once its document is decoded
nested_to_process(decoded, max_depth) ==
    IF decoded.nested_sitemaps # <<>> /\ max_depth > 1
    THEN limited_nested(decoded.nested_sitemaps)
    ELSE <<>>

Children(t, p) == {c \in DOMAIN t : Len(c) = Len(p) + 1 /\ SubSeq(c, 1, Len(p)) = p}

Completed_unless_failed(t, p) ==
    \/ t[p].st = "skipped"
    \/ t[p].st = "fetched" /\ Children(t, p) = {}

\* the future of the call at p has resolved
RECURSIVE Completed(_, _)
Completed(t, p) ==
    \/ t[p].st \in {"skipped", "fetch_failed", "decode_failed"}
    \/ /\ t[p].st = "fetched"
       /\ \A c \in Children(t, p) : Completed(t, c)

\* parser.rs 226-236 and 240: what the resolved call at p returns,
\* Ok((all_urls, request_count)) or Err
RECURSIVE call_result(_, _)
RECURSIVE merge_nested(_, _, _, _)
merge_nested(t, p, i, acc) ==
    IF Append(p, i) \notin DOMAIN t THEN acc
    ELSE CHOOSE merged \in
           {merge_nested(t, p, i + 1, next) :
              next \in {LET r == call_result(t, Append(p, i))
                        IN  IF r.ok
                            THEN [urls |-> acc.urls \cup r.value.urls,
                                  requests |-> acc.requests + r.value.requests]
                            ELSE acc}} : TRUE

call_result_strict(t, p) ==
    CASE t[p].st = "skipped" -> Ok([urls |-> {}, requests |-> 0])
      [] t[p].st \in {"fetch_failed", "decode_failed"} -> Err(<<"NetworkError", t[p].url>>)
      [] OTHER ->
           IF \E c \in Children(t, p) : t[c].st \in {"fetch_failed", "decode_failed"}
           THEN Err(<<"NetworkError", t[p].url>>)
           ELSE Ok(merge_nested(t, p, 1,
                  [urls |-> parse_sitemap_xml(Content(t[p].url), t[p].base).urls,
                   requests |-> 1]))

call_result(t, p) ==
    CASE t[p].st = "skipped" -> Ok([urls |-> {}, requests |-> 0])
      [] t[p].st = "fetch_failed" -> Err(<<"NetworkError", t[p].url>>)
      [] t[p].st = "decode_failed" -> Err(<<"InvalidURL", t[p].url>>)
      [] OTHER ->
           Ok(merge_nested(t, p, 1,
                [urls |-> parse_sitemap_xml(Content(t[p].url), t[p].base).urls,
                 requests |-> 1]))

\* parser.rs 201-224: the GET of the call at p resolves with outcome o; the
\* document is decoded and the children are started
after_fetch(t, p, o) ==
    IF o = "error" THEN [t EXCEPT ![p].st = "fetch_failed"]
    ELSE CHOOSE after \in
           {IF ~decoded.ok THEN [t EXCEPT ![p].st = "decode_failed"]
            ELSE [t EXCEPT ![p].st = "fetched"]
                 @@ CHOOSE started \in
                      {spawn(p, q, t[p].base, t[p].depth - 1) :
                         q \in {nested_to_process(decoded, t[p].depth)}} : TRUE :
              decoded \in {parse_sitemap_xml(Content(t[p].url), t[p].base)}} : TRUE

issued_after_fetch(t, p, o) ==
    IF o = "error" THEN EmptyBag
    ELSE CHOOSE gets \in
           {IF ~decoded.ok THEN EmptyBag
            ELSE issued(nested_to_process(decoded, t[p].depth), t[p].depth - 1) :
              decoded \in {parse_sitemap_xml(Content(t[p].url), t[p].base)}} : TRUE

(* ---------------------------------------------------------------------- *)
(* parse_site                                                              *)
(* ---------------------------------------------------------------------- *)
\* parser.rs 249
robots_url_of(normalized_url) ==
    trim_end_matches_slash(normalized_url) \o <<"/robots.txt">>

\* parser.rs 262-266
fallback_sitemaps(normalized_url) ==
    <<trim_end_matches_slash(normalized_url) \o <<"/sitemap.xml">>,
      trim_end_matches_slash(normalized_url) \o <<"/sitemap_index.xml">>,
      trim_end_matches_slash(normalized_url) \o <<"/sitemaps.xml">>>>

sitemaps_found_with_fallback(robots_content, normalized_url) ==
    parse_robots_txt(robots_content, normalized_url)
        \o fallback_sitemaps(normalized_url)

\* parser.rs 258-269
sitemaps_found_of(robots_content, normalized_url) ==
    LET sitemaps == parse_robots_txt(robots_content, normalized_url)
    IN  IF sitemaps = <<>> THEN fallback_sitemaps(normalized_url) ELSE sitemaps

limited_sitemaps_all(sitemaps_found) == sitemaps_found

\* parser.rs 272
limited_sitemaps(sitemaps_found) == take(sitemaps_found, cfg.max_sitemaps)

robots_failed_fallback(res, robots_url) ==
    [res EXCEPT !.errors = Append(@, <<"Could not fetch robots.txt", robots_url>>),
                !.sitemaps_found = fallback_sitemaps(
                                       SubSeq(robots_url, 1, Len(robots_url) - 1))]

\* parser.rs 296-298
robots_failed(res, robots_url) ==
    [res EXCEPT !.errors = Append(@, <<"Could not fetch robots.txt", robots_url>>)]

top_error_logged(res, e) == res

top_error_counted(res, e) ==
    [res EXCEPT !.errors = Append(@, <<"Error processing sitemap", e>>),
                !.total_requests = @ + 1]

\* parser.rs 290-292
top_error(res, e) ==
    [res EXCEPT !.errors = Append(@, <<"Error processing sitemap", e>>)]

\* parser.rs 284-294: the results of the top-level calls merged in list order
RECURSIVE merge_top(_, _, _)
merge_top(t, i, res) ==
    IF <<i>> \notin DOMAIN t THEN res
    ELSE CHOOSE merged \in
           {merge_top(t, i + 1, next) :
              next \in {LET r == call_result(t, <<i>>)
                        IN  IF r.ok
                            THEN [res EXCEPT !.urls = @ \cup r.value.urls,
                                             !.total_requests = @ + r.value.requests]
                            ELSE top_error(res, r.err)}} : TRUE

TopCompleted(t) == \A p \in DOMAIN t : Len(p) = 1 => Completed(t, p)

(* ---------------------------------------------------------------------- *)
(* parse_multiple_sites                                                    *)
(* ---------------------------------------------------------------------- *)
permit_always(n) == TRUE

\* tokio Semaphore::acquire resolves when a permit is free
permit_available(n) == n > 0

release_leaked(n) == n

\* parser.rs 319-333: _permit is dropped when the site's future ends
release(n) == n + 1

site_output_propagated(base_url, r) ==
    IF r.ok THEN Ok(r.value) ELSE Err(r.err)

\* parser.rs 322-333: the output of a site's future from parse_site's return
site_output(base_url, r) ==
    IF r.ok THEN Ok(r.value)
    ELSE Ok([ParsedSiteResult_new(base_url) EXCEPT
                !.errors = Append(@, <<"Failed to parse", base_url, r.err>>)])

collect_reversed(outs) ==
    IF \A i \in DOMAIN outs : outs[i].ok
    THEN Ok([i \in DOMAIN outs |-> outs[Len(outs) + 1 - i].value])
    ELSE Err("Semaphore error")

\* parser.rs 339: Result<Vec<_>, _> collected from the outputs in input order
collect(outs) ==
    IF \A i \in DOMAIN outs : outs[i].ok
    THEN Ok([i \in DOMAIN outs |-> outs[i].value])
    ELSE Err("Semaphore error")

\* parser.rs 319-322 and 248-253: the next site in line takes a permit and
\* enters parse_site, which normalizes the URL and issues the robots.txt GET,
\* or returns Err, and then the permit is dropped.  join_all polls the site
\* futures in input order and the tokio semaphore serves its waiters first
\* come first served, so the permits go to the sites in input order.
Acquire(s) ==
    /\ phase[s] = "waiting"
    /\ \A j \in Sites : j < s => phase[j] # "waiting"
    /\ permit_available(permits)
    /\ LET n == normalize_url(base_urls[s])
       IN  IF n.ok
           THEN /\ phase' = [phase EXCEPT ![s] = "robots"]
                /\ robots' = [robots EXCEPT ![s] = "pending"]
                /\ permits' = permits - 1
                /\ result' = [result EXCEPT
                                ![s] = Ok(ParsedSiteResult_new(base_urls[s]))]
                /\ requests' = [requests EXCEPT
                                ![s] = SetToBag({robots_url_of(n.value)})]
           ELSE /\ phase' = [phase EXCEPT ![s] = "done"]
                /\ robots' = robots
                /\ permits' = permits
                /\ result' = [result EXCEPT
                                ![s] = site_output(base_urls[s], Err(n.err))]
                /\ requests' = requests
    /\ UNCHANGED <<cfg, base_urls, calls, batch, served, bypass, pure>>

\* parser.rs 282-302 and 322-326: parse_site returns its result and the
\* site's future resolves, dropping the permit
Finish(s, res) ==
    /\ phase' = [phase EXCEPT ![s] = "done"]
    /\ permits' = release(permits)
    /\ result' = [result EXCEPT ![s] = site_output(base_urls[s], Ok(res))]

\* parser.rs 253-282 and 296-298: the robots.txt GET resolves
RobotsFetched(s) ==
    /\ phase[s] = "robots"
    /\ LET normalized_url == normalize_url(base_urls[s]).value
           robots_url == robots_url_of(normalized_url)
       IN  \/ /\ robots' = [robots EXCEPT ![s] = "error"]
              /\ served' = served
              /\ calls' = calls
              /\ requests' = requests
              /\ Finish(s, robots_failed(result[s].value, robots_url))
           \/ \E robots_content \in RobotsTexts :
                \E found \in {sitemaps_found_of(robots_content, normalized_url)} :
                \E t \in {spawn(<<>>, limited_sitemaps(found), normalized_url,
                              cfg.max_depth)} :
                LET limited == limited_sitemaps(found)
                    res == [result[s].value EXCEPT !.total_requests = @ + 1,
                                                   !.sitemaps_found = found]
                IN  /\ robots' = [robots EXCEPT ![s] = "ok"]
                    /\ served' = [served EXCEPT ![s] = robots_content]
                    /\ calls' = [calls EXCEPT ![s] = t]
                    /\ requests' = [requests EXCEPT
                                      ![s] = @ (+) issued(limited, cfg.max_depth)]
                    /\ IF TopCompleted(t)
                       THEN Finish(s, merge_top(t, 1, res))
                       ELSE /\ phase' = [phase EXCEPT ![s] = "sitemaps"]
                            /\ permits' = permits
                            /\ result' = [result EXCEPT ![s] = Ok(res)]
    /\ UNCHANGED <<cfg, base_urls, batch, bypass, pure>>

\* parser.rs 201-240: the GET of one call resolves; when it was the last one
\* pending of the site, the joins resolve up to parse_site
SitemapFetched(s) ==
    /\ phase[s] = "sitemaps"
    /\ \E p \in DOMAIN calls[s] :
         /\ calls[s][p].st = "fetching"
         /\ \E o \in FetchOutcomes(calls[s][p].url) :
              \E t \in {after_fetch(calls[s], p, o)} :
                  /\ calls' = [calls EXCEPT ![s] = t]
                  /\ requests' = [requests EXCEPT
                                    ![s] = @ (+) issued_after_fetch(calls[s], p, o)]
                  /\ IF TopCompleted(t)
                     THEN Finish(s, merge_top(t, 1, result[s].value))
                     ELSE UNCHANGED <<phase, permits, result>>
    /\ UNCHANGED <<cfg, base_urls, robots, batch, served, bypass, pure>>

\* parser.rs 339-342: every site's future has resolved
BatchReturn ==
    /\ batch.state = "running"
    /\ \A s \in Sites : phase[s] = "done"
    /\ batch' = [state |-> "returned", out |-> collect(result)]
    /\ UNCHANGED <<cfg, base_urls, permits, phase, robots, calls, result, requests,
                   served, bypass, pure>>

Next ==
    \/ \E s \in Sites : Acquire(s)
    \/ \E s \in Sites : RobotsFetched(s)
    \/ \E s \in Sites : SitemapFetched(s)
    \/ BatchReturn

(* ---------------------------------------------------------------------- *)
(* parse_specific_sitemaps                                                 *)
(* ---------------------------------------------------------------------- *)
\* parser.rs 351-355: the base URL of one input
bypass_base(sitemap_url) ==
    LET parsed_url == url_parse(sitemap_url)
    IN  IF parsed_url.ok
        THEN <<with_separator(parsed_url.scheme), parsed_url.host>>
        ELSE sitemap_url

bypass_depth_configured(max_depth) == max_depth

\* parser.rs 361: the depth the inputs are traversed with
bypass_depth(max_depth) == 1

\* parser.rs 360-362: one call per input, on its own base
bypass_calls(sitemap_urls) ==
    [c \in {<<i>> : i \in 1..Len(sitemap_urls)} |->
        call_start(sitemap_urls[c[1]], bypass_base(sitemap_urls[c[1]]),
                   bypass_depth(cfg.max_depth))]

\* parser.rs 367-384: the URL sets of the calls that returned Ok, merged
RECURSIVE bypass_merge(_, _, _)
bypass_merge(t, i, all_urls) ==
    IF <<i>> \notin DOMAIN t THEN all_urls
    ELSE LET r == call_result(t, <<i>>)
         IN  bypass_merge(t, i + 1,
                 IF r.ok THEN all_urls \cup r.value.urls ELSE all_urls)

BypassSettle(t) ==
    IF TopCompleted(t)
    THEN [bypass EXCEPT !.state = "returned", !.calls = t,
                        !.out = Ok(bypass_merge(t, 1, {}))]
    ELSE [bypass EXCEPT !.state = "running", !.calls = t]

\* parser.rs 346-365: the call starts and issues the GET of every input
BypassStart ==
    /\ bypass.state = "called"
    /\ \E t \in {bypass_calls(bypass.sitemap_urls)} :
         bypass' = [BypassSettle(t) EXCEPT
                      !.requests = issued(bypass.sitemap_urls,
                                          bypass_depth(cfg.max_depth))]
    /\ UNCHANGED <<cfg, base_urls, permits, phase, robots, calls, result, requests,
                   batch, served, pure>>

\* parser.rs 365-384: the GET of one call resolves; after the last one the
\* results are merged and returned
BypassFetched ==
    /\ bypass.state = "running"
    /\ \E p \in DOMAIN bypass.calls :
         /\ bypass.calls[p].st = "fetching"
         /\ \E o \in FetchOutcomes(bypass.calls[p].url) :
            \E t \in {after_fetch(bypass.calls, p, o)} :
                bypass' = [BypassSettle(t) EXCEPT
                             !.requests = @ (+) issued_after_fetch(bypass.calls, p, o)]
    /\ UNCHANGED <<cfg, base_urls, permits, phase, robots, calls, result, requests,
                   batch, served, pure>>

BypassNext == BypassStart \/ BypassFetched

(* ---------------------------------------------------------------------- *)
(* Specifications                                                          *)
(* ---------------------------------------------------------------------- *)
BaseUrlInputs == {<<"a.example">>, <<"http://", "a.example", ":8080", "/", "#top">>,
                  <<"https://">>}

\* a host without scheme, and a scheme without host
BatchInputs == {<<"a.example">>, <<"https://">>}

Start(urls, c) ==
    /\ cfg = c
    /\ base_urls = urls
    /\ permits = c.max_concurrent
    /\ phase = [s \in DOMAIN urls |-> "waiting"]
    /\ robots = [s \in DOMAIN urls |-> "idle"]
    /\ calls = [s \in DOMAIN urls |-> <<>>]
    /\ result = [s \in DOMAIN urls |-> Ok(ParsedSiteResult_new(urls[s]))]
    /\ requests = [s \in DOMAIN urls |-> EmptyBag]
    /\ batch = [state |-> "running"]
    /\ served = [s \in DOMAIN urls |-> <<>>]
    /\ bypass = [state |-> "idle"]
    /\ pure = [op |-> "none"]

Config(c, s, d, k) ==
    [max_concurrent |-> c, max_sitemaps |-> s, max_depth |-> d,
     max_nested_per_level |-> k]

\* a batch of sites, shallow traversals
Init ==
    \E n \in 0..MaxSites :
    \E urls \in [1..n -> BatchInputs] :
    \E c \in 0..MaxConcurrent, s \in 0..1, d \in 0..1 :
        Start(urls, Config(c, s, d, DefaultMaxNested))

Spec == Init /\ [][Next]_vars

\* one site, deep traversals
SiteInit ==
    \E url \in BaseUrlInputs :
    \E s \in 0..MaxSitemaps, d \in 0..MaxDepth, k \in 0..MaxNested :
        Start(<<url>>, Config(1, s, d, k))

SiteSpec == SiteInit /\ [][Next]_vars

\* the inputs of parse_specific_sitemaps: a leaf, the index, a document that
\* does not decode, and a URL without scheme
BypassInputs == {Page("/sitemap.xml"), Page("/sitemap_index.xml"), Page("/bad.xml"),
                 <<"a.example", "/sitemaps.xml">>}

Idle(c) ==
    /\ cfg = c
    /\ base_urls = <<>>
    /\ permits = c.max_concurrent
    /\ phase = <<>>
    /\ robots = <<>>
    /\ calls = <<>>
    /\ result = <<>>
    /\ requests = <<>>
    /\ batch = [state |-> "idle"]
    /\ served = <<>>

BypassInit ==
    \E n \in 0..MaxUrls :
    \E urls \in [1..n -> BypassInputs] :
    \E d \in 0..MaxDepth :
        /\ Idle(Config(1, 1, d, DefaultMaxNested))
        /\ bypass = [state |-> "called", sitemap_urls |-> urls, calls |-> <<>>,
                     requests |-> EmptyBag, out |-> Ok({})]
        /\ pure = [op |-> "none"]

BypassSpec == BypassInit /\ [][BypassNext]_vars

\* normalize_url applied to a string and then to its own output
UrlTokens == Schemes \cup Hosts \cup Ports \cup {"/", "/p1"} \cup Queries \cup Fragments

NormalizeInit ==
    \E n \in 0..MaxTokens :
    \E x \in [1..n -> UrlTokens] :
        /\ Idle(Config(1, 1, 1, DefaultMaxNested))
        /\ bypass = [state |-> "idle"]
        /\ pure = [op |-> "input", url |-> x]

NormalizeOnce ==
    /\ pure.op = "input"
    /\ pure' = [op |-> "normalized", url |-> pure.url, once |-> normalize_url(pure.url)]
    /\ UNCHANGED <<cfg, base_urls, permits, phase, robots, calls, result, requests,
                   batch, served, bypass>>

NormalizeTwice ==
    /\ pure.op = "normalized"
    /\ pure.once.ok
    /\ pure' = [op |-> "renormalized", url |-> pure.url, once |-> pure.once,
                twice |-> normalize_url(pure.once.value)]
    /\ UNCHANGED <<cfg, base_urls, permits, phase, robots, calls, result, requests,
                   batch, served, bypass>>

NormalizeNext == NormalizeOnce \/ NormalizeTwice

NormalizeSpec == NormalizeInit /\ [][NormalizeNext]_vars

\* parse_robots_txt applied to a robots text
RobotsKeys == {"Sitemap:", "SITEMAP:", "sitemap:", "Disallow:"}
RobotsValues == {<<>>, <<" ">>, Page("/sitemap.xml"), <<" ", "/sitemap.xml">>,
                 <<"news.xml", " ">>, <<"//[">>}
RobotsLines == {Line(k, v) : k \in RobotsKeys, v \in RobotsValues}
RobotsBases == {<<"https://", "a.example", "/">>,
                <<"http://", "a.example", ":8080", "/">>}

RobotsInit ==
    \E n \in 0..MaxLines :
    \E content \in [1..n -> RobotsLines] :
    \E base_url \in RobotsBases :
        /\ Idle(Config(1, 1, 1, DefaultMaxNested))
        /\ bypass = [state |-> "idle"]
        /\ pure = [op |-> "robots", content |-> content, base_url |-> base_url]

ParseRobots ==
    /\ pure.op = "robots"
    /\ pure' = [op |-> "robots_parsed", content |-> pure.content,
                base_url |-> pure.base_url,
                sitemaps |-> parse_robots_txt(pure.content, pure.base_url)]
    /\ UNCHANGED <<cfg, base_urls, permits, phase, robots, calls, result, requests,
                   batch, served, bypass>>

RobotsNext == ParseRobots

RobotsSpec == RobotsInit /\ [][RobotsNext]_vars

\* parse_sitemap_xml applied to a document: a root element, or none, around
\* a sequence of entries
LocValues == {Page("/p1"), <<"/p2">>, <<"news.xml">>, <<>>}
ImageLoc == Page("/p3")
Entry(kind, loc) == [kind |-> kind, loc |-> loc]
Entries ==
    {Entry("url", v) : v \in LocValues}
    \cup {Entry("sitemap", v) : v \in LocValues \cup {<<"//[">>}}
    \cup {Entry("loc", v) : v \in LocValues}
    \cup {Entry(k, Page("/p1")) : k \in {"url+image:image", "url+image"}}
    \cup {Entry(k, <<>>) : k \in {"image:image", "image", "sitemap+image",
                                  "comment", "stray"}}
Roots == {"", "urlset", "sitemapindex"}

render(e) ==
    CASE e.kind = "url" -> UrlEntry(e.loc)
      [] e.kind = "sitemap" -> SitemapEntry(e.loc)
      [] e.kind = "loc" -> Element("loc", e.loc)
      [] e.kind = "url+image:image" ->
           Element("url", Element("loc", e.loc)
                          \o Element("image:image", Element("image:loc", ImageLoc)))
      [] e.kind = "url+image" ->
           Element("url", Element("image", Element("loc", ImageLoc))
                          \o Element("loc", e.loc))
      [] e.kind = "image:image" ->
           Element("url", Element("image:image", Element("image:loc", ImageLoc)))
      [] e.kind = "image" ->
           Element("url", Element("image", Element("loc", ImageLoc)))
      [] e.kind = "sitemap+image" ->
           Element("sitemap", Element("image", Element("loc", ImageLoc)))
      [] e.kind = "comment" -> <<Comment>>
      [] e.kind = "stray" -> <<close_tag("url")>>

RECURSIVE render_all(_)
render_all(es) == IF es = <<>> THEN <<>> ELSE render(Head(es)) \o render_all(Tail(es))

document(root, es) ==
    IF root = "" THEN render_all(es) ELSE Element(root, render_all(es))

DecodeBases == {<<"https://", "a.example", "/">>,
                <<"http://", "a.example", ":8080", "/sitemap.xml">>}

DecodeInit ==
    \E n \in 0..MaxEntries :
    \E es \in [1..n -> Entries] :
    \E root \in Roots :
    \E base_url \in DecodeBases :
        /\ Idle(Config(1, 1, 1, DefaultMaxNested))
        /\ bypass = [state |-> "idle"]
        /\ pure = [op |-> "xml", root |-> root, entries |-> es,
                   content |-> document(root, es), base_url |-> base_url]

ParseSitemapXml ==
    /\ pure.op = "xml"
    /\ pure' = [pure EXCEPT !.op = "xml_parsed"] @@
                [structured |-> structured(pure.content, pure.base_url),
                 scanned |-> decode(pure.content, pure.base_url).scanned,
                 out |-> parse_sitemap_xml(pure.content, pure.base_url)]
    /\ UNCHANGED <<cfg, base_urls, permits, phase, robots, calls, result, requests,
                   batch, served, bypass>>

DecodeNext == ParseSitemapXml

DecodeSpec == DecodeInit /\ [][DecodeNext]_vars

\* parse_sitemap_xml applied to a malformed document: an end tag with no
\* start tag, then a sequence of entries; the reader's first event is Err
MalformedInit ==
    \E n \in 0..MaxEntries :
    \E es \in [1..n -> Entries] :
    \E base_url \in DecodeBases :
        /\ Idle(Config(1, 1, 1, DefaultMaxNested))
        /\ bypass = [state |-> "idle"]
        /\ pure = [op |-> "xml", root |-> "", entries |-> es,
                   content |-> <<close_tag("urlset")>> \o render_all(es),
                   base_url |-> base_url]

FallbackSpec == MalformedInit /\ [][DecodeNext]_vars

\* every GET returns or times out, the semaphore hands out free permits,
\* and the runtime polls a future that can resolve
Fairness ==
    /\ WF_vars(\E s \in Sites : Acquire(s))
    /\ WF_vars(\E s \in Sites : RobotsFetched(s))
    /\ WF_vars(\E s \in Sites : SitemapFetched(s))
    /\ WF_vars(BatchReturn)

FairSpec == Init /\ [][Next]_vars /\ Fairness

\* one parse_site call under the same scheduling
FairSiteSpec == SiteInit /\ [][Next]_vars /\ Fairness

(* ---------------------------------------------------------------------- *)
(* Properties                                                              *)
(* ---------------------------------------------------------------------- *)
Done(s) == phase[s] = "done"
Active(s) == phase[s] \in {"robots", "sitemaps"}
Failed(t, p) == t[p].st \in {"fetch_failed", "decode_failed"}
Top(t) == {p \in DOMAIN t : Len(p) = 1}
RobotsUrl(s) ==
    LET n == normalize_url(base_urls[s])
    IN  IF n.ok THEN robots_url_of(n.value) ELSE <<>>
\* the GETs of sitemap documents of site s
SitemapRequests(s) == BagToSet(requests[s]) \ {RobotsUrl(s)}
Decoded(t, p) == parse_sitemap_xml(Content(t[p].url), t[p].base)

\* C1: after a parse_site call, total_requests equals the number of GETs
\* attempted during the call, failed attempts included.
C1_TotalRequestsCountsAttempts ==
    \A s \in Sites :
        Done(s) /\ result[s].ok =>
            result[s].value.total_requests = BagCardinality(requests[s])

\* C2: at most max_concurrent sites are between the start and the end of
\* their parse_site.
C2_AtMostMaxConcurrentActive ==
    Cardinality({s \in Sites : Active(s)}) <= cfg.max_concurrent

C2_Witness ==
    /\ cfg.max_concurrent = 2
    /\ Cardinality({s \in Sites : Active(s)}) = 2
    /\ \E s \in Sites : phase[s] = "waiting"
    /\ \E s \in Sites : phase[s] = "sitemaps"

\* C3: parse_multiple_sites eventually returns, with one result per input URL.
C3_BatchCompletes ==
    <>(/\ batch.state = "returned"
       /\ batch.out.ok
       /\ Len(batch.out.value) = Len(base_urls))

\* C4: a site whose parse_site returns Err yields a result with the input as
\* base_url, the failure as its only error, no urls and no requests, and the
\* batch returns Ok with that result at the site's index.
FailsOutright(s) == ~normalize_url(base_urls[s]).ok

ErrorResultOf(s) ==
    [base_url |-> base_urls[s], urls |-> {}, sitemaps_found |-> <<>>,
     errors |-> <<<<"Failed to parse", base_urls[s], "InvalidURL">>>>,
     total_requests |-> 0]

C4_FailedSiteBecomesErrorResult ==
    /\ \A s \in Sites :
          Done(s) /\ FailsOutright(s) =>
              /\ result[s] = Ok(ErrorResultOf(s))
              /\ requests[s] = EmptyBag
    /\ batch.state = "returned" =>
          /\ batch.out.ok
          /\ Len(batch.out.value) = Len(base_urls)
          /\ \A s \in Sites : FailsOutright(s) => batch.out.value[s] = ErrorResultOf(s)
          /\ \A s \in Sites : batch.out.value[s] = result[s].value

C4_Witness ==
    /\ batch.state = "returned"
    /\ \E s \in Sites : FailsOutright(s)
    /\ \E s \in Sites : batch.out.value[s].urls # {}

\* C5: no sitemap GET is issued before the robots.txt GET has succeeded, and
\* a failed robots.txt GET ends the call with one error, no urls, no
\* sitemaps_found and no sitemap GET.
C5_RobotsFirst ==
    \A s \in Sites :
        /\ robots[s] # "ok" => calls[s] = <<>> /\ SitemapRequests(s) = {}
        /\ robots[s] = "error" =>
              /\ Done(s)
              /\ result[s].ok
              /\ Len(result[s].value.errors) = 1
              /\ result[s].value.errors[1][1] = "Could not fetch robots.txt"
              /\ result[s].value.urls = {}
              /\ result[s].value.sitemaps_found = <<>>
              /\ requests[s] = SetToBag({RobotsUrl(s)})

C5_Witness ==
    \E s \in Sites : robots[s] = "error" /\ Done(s) /\ cfg.max_sitemaps > 0 /\ cfg.max_depth > 0

C7_NoSitemapFetchedTwice ==
    \A s \in Sites : \A u \in BagToSet(requests[s]) : CopiesIn(u, requests[s]) <= 1

\* C8: a call with remaining depth 0 makes no GET and returns no urls and a
\* request count of 0; with max_depth = 0 parse_site makes the robots.txt
\* GET only and returns no urls.
C8_DepthZeroFetchesNothing ==
    \A s \in Sites :
        /\ \A p \in DOMAIN calls[s] :
              calls[s][p].depth = 0 =>
                  /\ calls[s][p].st = "skipped"
                  /\ call_result(calls[s], p) = Ok([urls |-> {}, requests |-> 0])
                  /\ Children(calls[s], p) = {}
        /\ cfg.max_depth = 0 =>
              /\ SitemapRequests(s) = {}
              /\ BagCardinality(requests[s]) <= 1
              /\ Done(s) /\ robots[s] = "ok" =>
                    /\ result[s].value.urls = {}
                    /\ result[s].value.total_requests = 1
                    /\ result[s].value.errors = <<>>

C8_Witness ==
    \E s \in Sites :
        /\ cfg.max_depth = 0
        /\ Done(s) /\ robots[s] = "ok"
        /\ Cardinality(DOMAIN calls[s]) = 3

\* C9: a fetched document with N nested sitemaps and remaining depth > 1
\* starts exactly min(N, max_nested_per_level) children, on the first nested
\* URLs in decode order, each with one level less; no call has more than
\* max_nested_per_level children.
C9_FanOutLimited ==
    \A s \in Sites : \A p \in DOMAIN calls[s] :
        LET t == calls[s]
        IN  /\ Cardinality(Children(t, p)) <= cfg.max_nested_per_level
            /\ t[p].st = "fetched" /\ t[p].depth > 1 =>
                  LET nested == Decoded(t, p).nested_sitemaps
                      n == Min(Len(nested), cfg.max_nested_per_level)
                  IN  /\ Children(t, p) = {Append(p, i) : i \in 1..n}
                      /\ \A i \in 1..n :
                            /\ t[Append(p, i)].url = nested[i]
                            /\ t[Append(p, i)].depth = t[p].depth - 1

C9_Witness ==
    \E s \in Sites : \E p \in DOMAIN calls[s] :
        /\ calls[s][p].st = "fetched"
        /\ calls[s][p].depth > 1
        /\ Len(Decoded(calls[s], p).nested_sitemaps) > cfg.max_nested_per_level
        /\ cfg.max_nested_per_level = 2
        /\ \A c \in Children(calls[s], p) : calls[s][c].st # "fetching"

\* C10: parse_site starts its top-level calls on exactly the first
\* min(max_sitemaps, length) entries of sitemaps_found, in order, each with
\* depth max_depth.
C10_TopLevelLimited ==
    \A s \in Sites :
        robots[s] = "ok" =>
            LET t == calls[s]
                found == result[s].value.sitemaps_found
                n == Min(cfg.max_sitemaps, Len(found))
            IN  /\ Top(t) = {<<i>> : i \in 1..n}
                /\ \A i \in 1..n :
                      /\ t[<<i>>].url = found[i]
                      /\ t[<<i>>].depth = cfg.max_depth
                /\ \A u \in SitemapRequests(s) :
                      \E p \in DOMAIN t : t[p].url = u

C10_Witness ==
    \E s \in Sites :
        /\ robots[s] = "ok" /\ Done(s)
        /\ Len(result[s].value.sitemaps_found) > cfg.max_sitemaps
        /\ cfg.max_sitemaps = 2
        /\ cfg.max_depth > 0

\* C11: after a successful robots.txt fetch with no Sitemap directive,
\* sitemaps_found is the three fallback URLs on the normalized base, in the
\* order /sitemap.xml, /sitemap_index.xml, /sitemaps.xml, and the top-level
\* calls are on the first max_sitemaps of them; with at least one directive,
\* sitemaps_found is the directive list and nothing else.
NormalizedBase(s) == trim_end_matches_slash(normalize_url(base_urls[s]).value)

C11_FallbackOnlyWithoutDirective ==
    \A s \in Sites :
        robots[s] = "ok" =>
            LET directives == parse_robots_txt(served[s], normalize_url(base_urls[s]).value)
                found == result[s].value.sitemaps_found
            IN  /\ directives = <<>> =>
                      /\ found = <<NormalizedBase(s) \o <<"/sitemap.xml">>,
                                   NormalizedBase(s) \o <<"/sitemap_index.xml">>,
                                   NormalizedBase(s) \o <<"/sitemaps.xml">>>>
                      /\ \A i \in 1..Min(3, cfg.max_sitemaps) :
                            /\ <<i>> \in DOMAIN calls[s]
                            /\ calls[s][<<i>>].url = found[i]
                /\ directives # <<>> => found = directives

C11_Witness ==
    \E s \in Sites :
        /\ robots[s] = "ok" /\ Done(s)
        /\ served[s] = RobotsNoDirective
        /\ base_urls[s] = <<"http://", "a.example", ":8080", "/", "#top">>
        /\ Cardinality(DOMAIN calls[s]) >= 3
        /\ result[s].value.urls # {}

\* C20: a sitemap whose fetch or decode fails aborts neither its siblings
\* nor its ancestors: a fetched parent returns Ok with its own content URLs
\* united with the URL sets of the children that returned Ok, and one request
\* plus theirs; the urls of parse_site are the union over the top-level calls
\* that returned Ok.
OkChildren(t, p) == {c \in Children(t, p) : call_result(t, c).ok}

RECURSIVE SumRequests(_, _)
SumRequests(t, S) ==
    IF S = {} THEN 0
    ELSE LET c == CHOOSE x \in S : TRUE
         IN  call_result(t, c).value.requests + SumRequests(t, S \ {c})

C20_FailureDoesNotAbort ==
    \A s \in Sites :
        LET t == calls[s]
        IN  /\ \A p \in DOMAIN t :
                  t[p].st = "fetched" /\ Completed(t, p) =>
                      /\ call_result(t, p).ok
                      /\ call_result(t, p).value.urls =
                            Decoded(t, p).urls
                              \cup UNION {call_result(t, c).value.urls : c \in OkChildren(t, p)}
                      /\ call_result(t, p).value.requests =
                            1 + SumRequests(t, OkChildren(t, p))
            /\ Done(s) /\ robots[s] = "ok" =>
                  result[s].value.urls =
                      UNION {call_result(t, p).value.urls :
                                p \in {q \in Top(t) : call_result(t, q).ok}}

C20_Witness ==
    \E s \in Sites :
        LET t == calls[s]
        IN  /\ Done(s) /\ robots[s] = "ok"
            /\ \E p \in Top(t) : Failed(t, p)
            /\ \E p \in DOMAIN t :
                  /\ t[p].st = "fetched"
                  /\ \E c \in Children(t, p) : Failed(t, c)
                  /\ \E c \in Children(t, p) :
                        t[c].st = "fetched" /\ call_result(t, c).value.urls # {}
                  /\ call_result(t, p).value.urls # {}
            /\ result[s].value.urls # {}

\* C12: parse_specific_sitemaps attempts exactly one GET per input URL and
\* never one of a nested sitemap, whatever max_depth is; a failed input is
\* skipped and the call returns Ok with the union of the content URLs of the
\* inputs that succeeded.
Occurrences(q, u) == Cardinality({i \in 1..Len(q) : q[i] = u})

C12_BypassFetchesInputsOnly ==
    bypass.state \in {"running", "returned"} =>
        LET t == bypass.calls
            inputs == bypass.sitemap_urls
        IN  /\ DOMAIN t = {<<i>> : i \in 1..Len(inputs)}
            /\ \A i \in 1..Len(inputs) : t[<<i>>].url = inputs[i]
            /\ BagCardinality(bypass.requests) = Len(inputs)
            /\ \A u \in BagToSet(bypass.requests) :
                  CopiesIn(u, bypass.requests) = Occurrences(inputs, u)
            /\ bypass.state = "returned" =>
                  /\ bypass.out.ok
                  /\ bypass.out.value =
                        UNION {Decoded(t, p).urls : p \in {q \in DOMAIN t : t[q].st = "fetched"}}

C12_Witness ==
    /\ bypass.state = "returned"
    /\ cfg.max_depth >= 2
    /\ \E p \in DOMAIN bypass.calls :
          /\ bypass.calls[p].st = "fetched"
          /\ Decoded(bypass.calls, p).nested_sitemaps # <<>>
    /\ \E p \in DOMAIN bypass.calls : Failed(bypass.calls, p)
    /\ bypass.out.value # {}

\* C19: when normalize_url succeeds on x, it succeeds on its own output and
\* returns that output unchanged.
C19_NormalizeIdempotent ==
    pure.op = "renormalized" =>
        /\ pure.twice.ok
        /\ pure.twice.value = pure.once.value

\* the first pass changed the input: scheme added, default port and
\* fragment dropped
C19_Witness ==
    /\ pure.op = "renormalized"
    /\ pure.url = <<"a.example", ":443", "#top">>
    /\ pure.once.value = <<"https://", "a.example", "/">>
    /\ pure.twice.ok

\* C18: parse_robots_txt returns one entry per line whose case-folded key is
\* 'sitemap:' and whose trimmed value is not empty, in file order and with
\* duplicates kept; every entry is absolute, an absolute value is returned
\* unchanged and a value starting with '/' is the base's origin followed by
\* the value.
IsDirective(line) == to_lowercase(line.key) = "sitemap:" /\ trim(line.value) # <<>>

Origin(base_url) == SubSeq(base_url, 1, Len(base_url) - 1)

C18_RobotsEntriesAbsolute ==
    pure.op = "robots_parsed" =>
        LET directives == SelectSeq(pure.content, IsDirective)
            out == pure.sitemaps
        IN  /\ Len(out) = Len(directives)
            /\ \A i \in 1..Len(directives) :
                  LET v == trim(directives[i].value)
                  IN  /\ url_parse(out[i]).ok
                      /\ starts_with_scheme(v) => out[i] = v
                      /\ starts_with_slash(v) => out[i] = Origin(pure.base_url) \o v

Parsed == pure.op = "xml_parsed" /\ pure.out.ok

Range(q) == {q[i] : i \in 1..Len(q)}

Absolute(u) == url_parse(u).ok

AllOfKind(k) == \A i \in 1..Len(pure.entries) : pure.entries[i].kind = k

\* C13: every URL in the urls and in the nested_sitemaps of a decode result
\* is absolute.
C13_DecodedUrlsAbsolute ==
    Parsed => \A u \in pure.out.urls \cup Range(pure.out.nested_sitemaps) : Absolute(u)

\* C14: the loc of an <image> element inside a <url> is never in the
\* returned content URLs, with or without a direct <loc> in the same <url>,
\* also when the fallback scanner runs.
ImageInUrl == {"url+image:image", "url+image", "image:image", "image"}

C14_ImageLocNotInUrls ==
    /\ Parsed
    /\ \A i \in 1..Len(pure.entries) : pure.entries[i].kind # "sitemap+image"
    /\ \E i \in 1..Len(pure.entries) : pure.entries[i].kind \in ImageInUrl
    => ImageLoc \notin pure.out.urls

\* C15 as stated: a urlset with N <url><loc> entries decodes to exactly N
\* content URLs and no nested sitemap.
UrlSetOfN == pure.op = "xml_parsed" /\ pure.root = "urlset" /\ AllOfKind("url")

C15_UrlSetGivesNUrls ==
    UrlSetOfN =>
        /\ pure.out.ok
        /\ Cardinality(pure.out.urls) = Len(pure.entries)
        /\ pure.out.nested_sitemaps = <<>>

DistinctLocs ==
    \A i, j \in 1..Len(pure.entries) :
        i # j => pure.entries[i].loc # pure.entries[j].loc

NonEmptyLocs == \A i \in 1..Len(pure.entries) : trim(pure.entries[i].loc) # <<>>

\* C15: a urlset with N <url><loc> entries whose loc values are non-empty
\* and pairwise distinct decodes to exactly those N values as content URLs
\* and to no nested sitemap.
C15_UrlSetGivesDistinctUrls ==
    UrlSetOfN /\ DistinctLocs /\ NonEmptyLocs =>
        /\ pure.out.ok
        /\ pure.out.urls = {pure.entries[i].loc : i \in 1..Len(pure.entries)}
        /\ Cardinality(pure.out.urls) = Len(pure.entries)
        /\ pure.out.nested_sitemaps = <<>>

C15_Witness ==
    /\ UrlSetOfN /\ DistinctLocs /\ NonEmptyLocs
    /\ Len(pure.entries) = MaxEntries
    /\ Cardinality(pure.out.urls) = MaxEntries

\* the absolute form of a non-empty reference against a base
Resolved(v, base_url) ==
    IF starts_with_scheme(v) THEN v
    ELSE IF v[1] \in Paths THEN Origin(base_url) \o v
    ELSE Origin(base_url) \o <<"/" \o v[1]>> \o Tail(v)

\* C16 as stated: a sitemapindex with N <sitemap><loc> entries decodes to no
\* content URL and exactly N nested sitemap URLs, each absolute.
IndexOfN == pure.op = "xml_parsed" /\ pure.root = "sitemapindex" /\ AllOfKind("sitemap")

C16_IndexGivesNNested ==
    IndexOfN =>
        /\ pure.out.ok
        /\ pure.out.urls = {}
        /\ Len(pure.out.nested_sitemaps) = Len(pure.entries)
        /\ \A i \in 1..Len(pure.out.nested_sitemaps) : Absolute(pure.out.nested_sitemaps[i])

Joinable == \A i \in 1..Len(pure.entries) : pure.entries[i].loc[1] \notin BadRefs

\* C16: a sitemapindex with N <sitemap><loc> entries whose loc values are
\* non-empty and can be resolved decodes to no content URL and to exactly N
\* nested sitemap URLs in document order, duplicates kept: an absolute value
\* unchanged, a root-relative or relative value joined against the base.
C16_IndexGivesResolvedNested ==
    IndexOfN /\ NonEmptyLocs /\ Joinable =>
        /\ pure.out.ok
        /\ pure.out.urls = {}
        /\ pure.out.nested_sitemaps =
              [i \in 1..Len(pure.entries) |-> Resolved(pure.entries[i].loc, pure.base_url)]
        /\ \A i \in 1..Len(pure.out.nested_sitemaps) : Absolute(pure.out.nested_sitemaps[i])

C16_Witness ==
    /\ IndexOfN /\ NonEmptyLocs /\ Joinable
    /\ Len(pure.entries) = MaxEntries
    /\ pure.entries[1].loc = <<"news.xml">>
    /\ pure.entries[MaxEntries].loc = <<"/p2">>
    /\ pure.base_url = <<"http://", "a.example", ":8080", "/sitemap.xml">>
    /\ pure.out.nested_sitemaps[1] = <<"http://", "a.example", ":8080", "/news.xml">>

\* C17: the fallback scanner runs exactly when the structured pass ended
\* with urls and nested_sitemaps both empty; on bare <loc>..</loc> pairs it
\* returns every non-empty value as a content URL; when the structured pass
\* found something, that is the result.
StructuredEmpty ==
    pure.structured.ok /\ pure.structured.urls = {} /\ pure.structured.nested_sitemaps = <<>>

BareLocs == pure.root = "" /\ AllOfKind("loc")

C17_FallbackIffStructuredEmpty ==
    pure.op = "xml_parsed" =>
        /\ pure.scanned <=> StructuredEmpty
        /\ BareLocs =>
              /\ pure.scanned
              /\ pure.out.ok
              /\ \A i \in 1..Len(pure.entries) :
                    trim(pure.entries[i].loc) # <<>> => pure.entries[i].loc \in pure.out.urls
        /\ ~StructuredEmpty => pure.out = pure.structured

C17_Witness ==
    /\ pure.op = "xml_parsed"
    /\ BareLocs
    /\ Len(pure.entries) = MaxEntries
    /\ pure.scanned
    /\ Cardinality(pure.out.urls) = MaxEntries

Parent(p) == SubSeq(p, 1, Len(p) - 1)

\* the call at p issued its GET
Attempted(t, p) == t[p].st # "skipped"

\* C21: a call at nesting level n (top level = 1) runs with depth
\* max_depth - (n - 1), a call has children only if its own depth is above
\* 1, no call at a level above max_depth issues a GET, and with
\* max_depth = 1 there is no nested call.
C21_DepthBoundsNesting ==
    \A s \in Sites : \A p \in DOMAIN calls[s] :
        LET t == calls[s]
        IN  /\ t[p].depth = cfg.max_depth - (Len(p) - 1)
            /\ Len(p) > 1 => t[Parent(p)].depth > 1 /\ t[p].depth = t[Parent(p)].depth - 1
            /\ Attempted(t, p) => Len(p) <= cfg.max_depth
            /\ cfg.max_depth = 1 => Len(p) = 1

\* an index fetched at the last level: its nested sitemaps are decoded and
\* not followed
C21_Witness ==
    \E s \in Sites : \E p \in DOMAIN calls[s] :
        /\ cfg.max_depth = MaxDepth
        /\ Len(p) = MaxDepth
        /\ calls[s][p].st = "fetched"
        /\ Decoded(calls[s], p).nested_sitemaps # <<>>
        /\ Children(calls[s], p) = {}
        /\ Done(s)

\* the number of sitemap GETs issued for site s
SitemapFetches(s) == Cardinality({p \in DOMAIN calls[s] : Attempted(calls[s], p)})

\* C22 as stated: the sitemap fetches of one site number at most
\* max_depth * max_nested_per_level.
C22_FetchesAtMostDepthTimesFanOut ==
    \A s \in Sites : SitemapFetches(s) <= cfg.max_depth * cfg.max_nested_per_level

\* the calls of a tree of depth d in which every call has k children
RECURSIVE TreeSize(_, _)
TreeSize(k, d) == IF d = 0 THEN 0 ELSE 1 + k * TreeSize(k, d - 1)

\* C22: the sitemap fetches of one site number at most max_sitemaps times
\* 1 + k + ... + k^(max_depth - 1), with k = max_nested_per_level.
C22_FetchesAtMostTreeSize ==
    \A s \in Sites :
        SitemapFetches(s) <=
            cfg.max_sitemaps * TreeSize(cfg.max_nested_per_level, cfg.max_depth)

\* the bound is reached, above max_depth * max_nested_per_level
C22_Witness ==
    \E s \in Sites :
        /\ Done(s)
        /\ cfg.max_depth = MaxDepth
        /\ SitemapFetches(s) =
              cfg.max_sitemaps * TreeSize(cfg.max_nested_per_level, cfg.max_depth)
        /\ SitemapFetches(s) > cfg.max_depth * cfg.max_nested_per_level

\* C23: when every GET returns or times out, a parse_site call returns,
\* on graphs with a self-referencing index and with more nested sitemaps than
\* the fan-out limit as well.
C23_ParseSiteTerminates == <>(\A s \in Sites : Done(s))

\* a call returned after following the index's reference to itself
C23_Witness ==
    \E s \in Sites : \E p \in DOMAIN calls[s] :
        /\ Done(s)
        /\ Len(p) > 1
        /\ calls[s][p].url = calls[s][Parent(p)].url
        /\ calls[s][p].st = "fetched"
        /\ Len(Decoded(calls[s], p).nested_sitemaps) > cfg.max_nested_per_level

\* C24: in the streaming pass the loc of an <image> element is added
\* neither to urls nor to nested_sitemaps, whether the <image> is inside a
\* <url> or inside a <sitemap>.
C24_ImageLocDiscarded ==
    pure.op = "xml_parsed" /\ pure.structured.ok =>
        ImageLoc \notin pure.structured.urls \cup Range(pure.structured.nested_sitemaps)

\* the <loc>..</loc> matches of the scanner with a non-empty value: the
\* indexes of their <loc>
Matches(content) ==
    {i \in 1..Len(content) :
        /\ content[i] = open_tag("loc")
        /\ find(content, i + 1, close_tag("loc")) > i + 1}

MatchUrl(content, i) ==
    trim(SubSeq(content, i + 1, find(content, i + 1, close_tag("loc")) - 1))

\* the window before token i holds a '<sitemap' with no '</sitemap>' after it
OpenSitemapBefore(content, i) ==
    LET ctx == context(content, i)
    IN  \E k \in 1..Len(ctx) :
            /\ ctx[k] \in {open_tag("sitemap"), open_tag("sitemapindex")}
            /\ \A j \in k + 1..Len(ctx) : ctx[j] # close_tag("sitemap")

SitemapEntriesOnly ==
    /\ Len(pure.entries) > 0
    /\ \A i \in 1..Len(pure.entries) :
          pure.entries[i].kind = "sitemap" /\ pure.entries[i].loc # <<>>

\* C25: the fallback scanner appends a match to nested_sitemaps, resolved,
\* exactly when the 100 characters before it hold a '<sitemap' that no later
\* '</sitemap>' of the window closes, and inserts it into urls otherwise; of
\* several <sitemap><loc>..</loc></sitemap> entries every one is nested.
C25_ScannerClassifiesByOpenSitemap ==
    pure.op = "xml_parsed" /\ pure.scanned /\ pure.out.ok =>
        LET content == pure.content
            nested == {i \in Matches(content) : OpenSitemapBefore(content, i)}
        IN  /\ Len(pure.out.nested_sitemaps) = Cardinality(nested)
            /\ \A i \in nested :
                  Resolved(MatchUrl(content, i), pure.base_url)
                      \in Range(pure.out.nested_sitemaps)
            /\ pure.out.urls = {MatchUrl(content, i) : i \in Matches(content) \ nested}
            /\ SitemapEntriesOnly =>
                  /\ pure.out.urls = {}
                  /\ Len(pure.out.nested_sitemaps) = Len(pure.entries)

\* C26: a site holds a permit from before its first GET until its
\* parse_site has returned, Ok or Err: the permits held and the free permits
\* always add up to max_concurrent, all are free once the batch has returned,
\* and with max_concurrent >= 1 every waiting site gets a permit.
PermitsHeld == Cardinality({s \in Sites : Active(s)})

\* a site that waits does so from the start, so that every waiting site gets
\* a permit when at some point none waits any more
Waiting(s) == s \in Sites /\ phase[s] = "waiting"

C26_PermitsConserved ==
    /\ [](/\ PermitsHeld + permits = cfg.max_concurrent
          /\ \A s \in Sites : phase[s] = "waiting" => requests[s] = EmptyBag
          /\ batch.state = "returned" => permits = cfg.max_concurrent)
    /\ [][\A s \in Sites : ~Waiting(s) => ~Waiting(s)']_vars
    /\ <>(cfg.max_concurrent >= 1 => \A s \in Sites : ~Waiting(s))

\* the last site of a full batch waited for the only permit, and sites that
\* failed and sites that succeeded have given theirs back
C26_Witness ==
    /\ batch.state = "returned"
    /\ Len(base_urls) = MaxSites
    /\ cfg.max_concurrent = 1
    /\ permits = 1
    /\ \E s \in Sites : result[s].value.errors # <<>>
    /\ \E s \in Sites : result[s].value.errors = <<>> /\ result[s].value.total_requests > 0

\* the positions of the calls started under the call at p
Positions(t, p) == {c[Len(c)] : c \in Children(t, p)}

\* C27: the calls of one fan-out are all started together and their GETs
\* issued, whatever state their siblings are in, and parse_site's result is
\* written only when every call of the site has completed.
C27_FanOutIssuedThenJoined ==
    \A s \in Sites :
        LET t == calls[s]
            res == result[s].value
        IN  /\ robots[s] = "ok" =>
                  Positions(t, <<>>) = 1..Len(limited_sitemaps(res.sitemaps_found))
            /\ \A p \in DOMAIN t :
                  t[p].st = "fetched" =>
                      Positions(t, p) =
                          1..Len(nested_to_process(Decoded(t, p), t[p].depth))
            /\ BagCardinality(requests[s]) =
                  (IF robots[s] = "idle" THEN 0 ELSE 1) + SitemapFetches(s)
            /\ phase[s] = "sitemaps" =>
                  /\ ~TopCompleted(t)
                  /\ res.urls = {} /\ res.errors = <<>> /\ res.total_requests = 1
            /\ Done(s) => TopCompleted(t)

\* two calls of a nested fan-out are in flight next to a failed sibling of
\* their parent, and nothing is merged yet
C27_Witness ==
    \E s \in Sites : \E p, q, f \in DOMAIN calls[s] :
        /\ phase[s] = "sitemaps"
        /\ Len(p) = 2 /\ Len(q) = 2 /\ p # q /\ Parent(p) = Parent(q)
        /\ calls[s][p].st = "fetching" /\ calls[s][q].st = "fetching"
        /\ Len(f) = 1 /\ calls[s][f].st = "fetch_failed"
        /\ result[s].value.urls = {}

\* C28: the list parse_multiple_sites returns has one result per input, the
\* i-th one carrying the i-th input string as base_url; a site's result
\* carries its own input as soon as the site is done, whichever sites are
\* still running.
C28_ResultsInInputOrder ==
    /\ \A s \in Sites : Done(s) => result[s].value.base_url = base_urls[s]
    /\ batch.state = "returned" =>
          /\ batch.out.ok
          /\ Len(batch.out.value) = Len(base_urls)
          /\ \A i \in 1..Len(base_urls) : batch.out.value[i].base_url = base_urls[i]

\* a returned batch of different inputs that ran two at a time
C28_Witness ==
    /\ batch.state = "returned"
    /\ Len(base_urls) = MaxSites
    /\ cfg.max_concurrent = MaxConcurrent
    /\ base_urls[1] # base_urls[MaxSites]
    /\ batch.out.value[1].base_url = base_urls[1]
    /\ batch.out.value[MaxSites].urls # {}

\* the call at p and every call above it returned Ok
ReturnedOk(t, p) == \A k \in 1..Len(p) : call_result(t, SubSeq(p, 1, k)).ok

\* C29: after parse_site, total_requests is at most the number of GETs
\* attempted, it is 0 exactly when the robots.txt GET did not succeed, and
\* otherwise it is 1 plus the number of sitemap GETs of the calls that
\* returned Ok under ancestors that all returned Ok.
C29_TotalRequestsCountsOkCalls ==
    \A s \in Sites :
        Done(s) =>
            LET t == calls[s]
                total_requests == result[s].value.total_requests
            IN  /\ total_requests <= BagCardinality(requests[s])
                /\ total_requests = 0 <=> robots[s] # "ok"
                /\ robots[s] = "ok" =>
                      total_requests =
                          1 + Cardinality({p \in DOMAIN t :
                                             Attempted(t, p) /\ ReturnedOk(t, p)})

\* a call below the top level is counted, a failed one is not
C29_Witness ==
    \E s \in Sites : \E p, f \in DOMAIN calls[s] :
        /\ Done(s)
        /\ Len(p) = 2 /\ calls[s][p].st = "fetched"
        /\ Failed(calls[s], f)
        /\ result[s].value.total_requests < BagCardinality(requests[s])
        /\ result[s].value.total_requests >= 3

====
